---------------------------- MODULE Spec2Model ----------------------------
(***************************************************************************)
(* Model of the localization catalog tools of Depthful:                    *)
(*   Variant A  fix_localizations.py      (the Normalizer)                 *)
(*   Variant B  localization_analyzer.py  (interactive analyse + repair)   *)
(*   Variant C  localization_fixer.py     (automatic analyse + repair)     *)
(*   Variant D  localization_status.py    (read-only status scan)          *)
(*                                                                         *)
(* A catalog (the "strings" collection) is a sequence of entries, in the   *)
(* insertion order of the JSON object; keys are distinct.  An entry is     *)
(*   [key, shouldTranslate, hasLoc, loc]                                   *)
(* where shouldTranslate is FALSE exactly when the entry's shouldTranslate *)
(* field compares equal to False, hasLoc says whether the "localizations"  *)
(* field is present and loc maps the present language codes to            *)
(*   [unit, state, value]                                                  *)
(* (unit: a "stringUnit" is present; state: its "state", NoState when the  *)
(* field is absent; value: its "value").                                   *)
(***************************************************************************)
EXTENDS Integers, Sequences, FiniteSets, TLC

\* ------------------------------------------------------------------ bounds
\* The largest number of entries of a catalog drawn by Init.
MaxEntries == 2

\* ------------------------------------------------------- program constants
EXPECTED_LANGUAGES ==
    {"ar", "de", "es", "fr", "hi", "ja", "ko", "pt", "zh-Hans", "en"}

\* One fixed enumeration of the language codes; the order in which a Python
\* set is listed is not fixed, see MissingOrder.
LangSeq == <<"ar", "de", "es", "fr", "hi", "ja", "ko", "pt", "zh-Hans", "en">>

TRANSLATED == "translated"
\* Marker for a stringUnit that has no "state" field.
NoState == "<absent>"
NoLocs == <<>>

\* The keys of the phrase dictionary of localization_fixer.py.
MappingKeys ==
    {"Documentation", "Email Support", "Hide Completed Items",
     "Organizes habits and tasks by time periods: Morning, Afternoon, Evening, and Today",
     "Hides completed habits and tasks from view", "Time-Based Filtering",
     "View Options", "Nothing to do.", "Habit Reminders", "Enable reminders",
     "All reminders disabled"}

\* The German column of the phrase dictionary.
MappingDe(k) ==
    CASE k = "Documentation" -> "Dokumentation"
      [] k = "Email Support" -> "E-Mail-Support"
      [] k = "Hide Completed Items" -> "Erledigte Elemente ausblenden"
      [] k = "Organizes habits and tasks by time periods: Morning, Afternoon, Evening, and Today"
              -> "Organisiert Gewohnheiten und Aufgaben nach Tageszeiten: Morgen, Nachmittag, Abend und Heute"
      [] k = "Hides completed habits and tasks from view"
              -> "Blendet erledigte Gewohnheiten und Aufgaben aus"
      [] k = "Time-Based Filtering" -> "Zeitbasierte Filterung"
      [] k = "View Options" -> "Ansichtsoptionen"
      [] k = "Nothing to do." -> "Nichts zu tun."
      [] k = "Habit Reminders" -> "Gewohnheitserinnerungen"
      [] k = "Enable reminders" -> "Erinnerungen aktivieren"
      [] OTHER -> "Alle Erinnerungen deaktiviert"

\* The phrase dictionary: every key has an entry for each of the ten codes.
\* The "en" column repeats the key and the "de" column is copied; the other
\* columns hold non-ASCII text and are written here as "<code>:<key>", except
\* the French "Documentation", which is the key itself in the source.
TRANSLATION_MAPPINGS ==
    [k \in MappingKeys |->
        [l \in EXPECTED_LANGUAGES |->
            CASE l = "en" -> k
              [] l = "de" -> MappingDe(k)
              [] l = "fr" /\ k = "Documentation" -> "Documentation"
              [] OTHER -> l \o ":" \o k]]

\* The dictionary local to localization_analyzer.generate_missing_translations.
\* "-" and ":" map to themselves in every language; " of " has translations
\* (non-ASCII ones are written "<code>: of ").
translation_map ==
    [k \in {" of ", "-", ":"} |->
        [l \in EXPECTED_LANGUAGES |->
            CASE k # " of " -> k
              [] l = "en" -> " of "
              [] l = "de" -> "von"
              [] l \in {"es", "fr", "pt"} -> "de"
              [] OTHER -> l \o ":" \o k]]

\* ------------------------------------------------------------ the inputs
\* Keys of the catalogs drawn by Init, in their order in the file: one key
\* of the phrase dictionary, one of translation_map, one of neither.
KeySeq == <<"Save", "Documentation", "-">>

Loc(st, v) == [unit |-> TRUE, state |-> st, value |-> v]
\* A localization without a stringUnit (an xcstrings "variations" entry).
NoUnit == [unit |-> FALSE, state |-> NoState, value |-> ""]

AllLocs(k, enLoc, frLoc) ==
    [l \in EXPECTED_LANGUAGES |->
        CASE l = "en" -> enLoc
          [] l = "fr" -> frLoc
          [] OTHER -> Loc(TRANSLATED, l \o ":" \o k)]

Restrict(f, S) == [x \in S |-> f[x]]

\* The shapes of entry a catalog is drawn from, for key k.
EntryKinds(k) ==
    LET E(st, has, loc) ==
            [key |-> k, shouldTranslate |-> st, hasLoc |-> has, loc |-> loc]
        full == AllLocs(k, Loc(TRANSLATED, k), Loc(TRANSLATED, "fr:" \o k))
    IN  { E(FALSE, FALSE, NoLocs),
          E(FALSE, TRUE, [l \in {"fr"} |-> Loc("needs_review", "fr:" \o k)]),
          E(TRUE, FALSE, NoLocs),
          E(TRUE, TRUE, NoLocs),
          E(TRUE, TRUE, [l \in {"en"} |-> Loc(TRANSLATED, k)]),
          E(TRUE, TRUE, [l \in {"en"} |-> Loc(TRANSLATED, "Documentation")]),
          E(TRUE, TRUE, [l \in {"en"} |-> NoUnit]),
          E(TRUE, TRUE, [l \in {"fr", "it"} |->
                            IF l = "fr" THEN Loc("needs_review", "fr:" \o k)
                                        ELSE Loc(NoState, "it:" \o k)]),
          E(TRUE, TRUE, full),
          E(TRUE, TRUE, AllLocs(k, Loc("new", k), Loc(TRANSLATED, "fr:" \o k))),
          E(TRUE, TRUE, Restrict(AllLocs(k, Loc(TRANSLATED, "Hello"),
                                         Loc("needs_review", "fr:" \o k)),
                                 EXPECTED_LANGUAGES \ {"de", "ko"})) }

\* The catalogs of n entries whose keys are KeySeq[from], KeySeq[from+1], ...
\* taken or skipped in that order.
RECURSIVE CatalogsFrom(_, _)
CatalogsFrom(from, n) ==
    IF n = 0 THEN {<<>>}
    ELSE IF from > Len(KeySeq) THEN {}
    ELSE {<<e>> \o rest : e \in EntryKinds(KeySeq[from]),
                          rest \in CatalogsFrom(from + 1, n - 1)}
         \cup CatalogsFrom(from + 1, n)

Catalogs == UNION {CatalogsFrom(1, n) : n \in 0..MaxEntries}

\* ------------------------------------------------------------- analysis
\* value.get('localizations', {})
Localizations(entry) == IF entry.hasLoc THEN entry.loc ELSE NoLocs

\* The completion percentage complete / translatable * 100 as the exact
\* fraction num / den; 0.0 when there is no translatable key.
Percentage(complete, translatable) ==
    IF translatable > 0
    THEN [num |-> complete * 100, den |-> translatable]
    ELSE [num |-> 0, den |-> 1]

\* p >= 100.0 and p > q on percentages.
PctAtLeast100(p) == p.num >= 100 * p.den
PctGreater_OrEqual(p, q) == p.num * q.den >= q.num * p.den
PctGreater(p, q) == p.num * q.den > q.num * p.den

EmptyAnalysis(strings) ==
    [total_keys |-> Len(strings),
     complete_keys |-> 0,
     incomplete_keys |-> <<>>,
     missing_languages |-> <<>>,
     should_not_translate |-> 0,
     completion_percentage |-> Percentage(0, 0)]

\* loc_data.get('stringUnit', {}).get('state') != 'translated'
NotTranslated(loc_data) == ~loc_data.unit \/ loc_data.state # TRANSLATED

AnalyzeEntryB_NoElse(a, value) ==
    IF ~value.shouldTranslate
    THEN [a EXCEPT !.should_not_translate = @ + 1]
    ELSE LET localizations == Localizations(value)
             missing_languages == EXPECTED_LANGUAGES \ DOMAIN localizations
             a1 == IF missing_languages # {}
                   THEN [a EXCEPT !.incomplete_keys = Append(@, value.key),
                                  !.missing_languages =
                                      (value.key :> missing_languages) @@ @]
                   ELSE a
         IN  IF \A lang \in DOMAIN localizations :
                    ~NotTranslated(localizations[lang])
             THEN [a1 EXCEPT !.complete_keys = @ + 1]
             ELSE [a1 EXCEPT !.incomplete_keys = Append(@, value.key)]

\* One iteration of the loop of localization_analyzer.analyze_completeness.
AnalyzeEntryB(a, value) ==
    IF ~value.shouldTranslate
    THEN [a EXCEPT !.should_not_translate = @ + 1]
    ELSE LET localizations == Localizations(value)
             missing_languages == EXPECTED_LANGUAGES \ DOMAIN localizations
         IN  IF missing_languages # {}
             THEN [a EXCEPT !.incomplete_keys = Append(@, value.key),
                            !.missing_languages = (value.key :> missing_languages) @@ @]
             ELSE IF \A lang \in DOMAIN localizations :
                         ~NotTranslated(localizations[lang])
                  THEN [a EXCEPT !.complete_keys = @ + 1]
                  ELSE [a EXCEPT !.incomplete_keys = Append(@, value.key)]

\* One iteration of the loop of localization_fixer.analyze_completeness.
AnalyzeEntryC(a, value) ==
    IF ~value.shouldTranslate
    THEN [a EXCEPT !.should_not_translate = @ + 1]
    ELSE LET localizations == Localizations(value)
             missing_languages == EXPECTED_LANGUAGES \ DOMAIN localizations
         IN  IF missing_languages # {}
             THEN [a EXCEPT !.incomplete_keys = Append(@, value.key),
                            !.missing_languages = (value.key :> missing_languages) @@ @]
             ELSE [a EXCEPT !.complete_keys = @ + 1]

\* One iteration of the loop of localization_status.check_localization_status,
\* which keeps the counters only.
AnalyzeEntryD(a, value) ==
    IF ~value.shouldTranslate
    THEN [a EXCEPT !.should_not_translate = @ + 1]
    ELSE IF EXPECTED_LANGUAGES \subseteq DOMAIN Localizations(value)
         THEN [a EXCEPT !.complete_keys = @ + 1]
         ELSE a

AnalyzeEntry(impl, a, value) ==
    CASE impl = "B" -> AnalyzeEntryB(a, value)
      [] impl = "C" -> AnalyzeEntryC(a, value)
      [] OTHER -> AnalyzeEntryD(a, value)

\* for key, value in strings.items(): ...
RECURSIVE AnalyzeLoop(_, _, _, _)
AnalyzeLoop(impl, strings, i, a) ==
    IF i > Len(strings) THEN a
    ELSE AnalyzeLoop(impl, strings, i + 1, AnalyzeEntry(impl, a, strings[i]))

analyze_completeness_OverTotal(impl, strings) ==
    LET a == AnalyzeLoop(impl, strings, 1, EmptyAnalysis(strings))
    IN  [a EXCEPT !.completion_percentage =
            Percentage(a.complete_keys, a.total_keys)]

\* analyze_completeness of implementation impl ("B", "C"), or the scan of
\* check_localization_status ("D"), on the strings collection.
analyze_completeness(impl, strings) ==
    LET a == AnalyzeLoop(impl, strings, 1, EmptyAnalysis(strings))
    IN  [a EXCEPT !.completion_percentage =
            Percentage(a.complete_keys, a.total_keys - a.should_not_translate)]

\* --------------------------------------------------------------- repair
\* The index of the entry with key k: data['strings'][k].
IndexOf(strings, k) == CHOOSE i \in 1..Len(strings) : strings[i].key = k

\* analysis['missing_languages'].get(key, [])
MissingOf(analysis, k) ==
    IF k \in DOMAIN analysis.missing_languages
    THEN analysis.missing_languages[k] ELSE {}

\* A listing of the set missing: list(set) has no fixed order.  The codes
\* other than "en" are listed as in LangSeq and "en" comes after enPos of them.
MissingOrder(missing, enPos) ==
    LET Other(l) == l \in missing \ {"en"}
        others == SelectSeq(LangSeq, Other)
        p == IF enPos < Len(others) THEN enPos ELSE Len(others)
    IN  IF "en" \in missing
        THEN SubSeq(others, 1, p) \o <<"en">> \o SubSeq(others, p + 1, Len(others))
        ELSE others

NewLocalization(v) == [unit |-> TRUE, state |-> TRANSLATED, value |-> v]

\* localization_analyzer.generate_missing_translations: the new translations,
\* or raised when the 'en' localization has no stringUnit (KeyError).
generate_missing_translations(strings, key, missing_languages) ==
    LET existing_localizations == Localizations(strings[IndexOf(strings, key)])
        enBroken == "en" \in DOMAIN existing_localizations
                    /\ ~existing_localizations["en"].unit
        english_value == IF "en" \in DOMAIN existing_localizations
                         THEN existing_localizations["en"].value
                         ELSE key
        Value(lang) == IF key \in DOMAIN translation_map
                          /\ lang \in DOMAIN translation_map[key]
                       THEN translation_map[key][lang]
                       ELSE english_value
    IN  IF enBroken
        THEN [raised |-> TRUE, new_translations |-> <<>>]
        ELSE [raised |-> FALSE,
              new_translations |->
                  [lang \in missing_languages |-> NewLocalization(Value(lang))]]

\* FixKeyB with the entry's localizations assigned the new translations
\* instead of being extended by them.
FixKeyB_Replace(strings, analysis, key) ==
    LET missing_languages == MissingOf(analysis, key)
        i == IndexOf(strings, key)
        gen == generate_missing_translations(strings, key, missing_languages)
    IN  IF missing_languages = {}
        THEN [raised |-> FALSE, strings |-> strings]
        ELSE IF gen.raised \/ ~strings[i].hasLoc
        THEN [raised |-> TRUE, strings |-> strings]
        ELSE [raised |-> FALSE,
              strings |-> [strings EXCEPT ![i].loc = gen.new_translations]]

\* The body of the loop of localization_analyzer.fix_localizations for one
\* incomplete key: strings is mutated in place; the assignment into
\* ['localizations'] raises KeyError when the entry has no such field.
FixKeyB(strings, analysis, key) ==
    LET missing_languages == MissingOf(analysis, key)
        i == IndexOf(strings, key)
        gen == generate_missing_translations(strings, key, missing_languages)
    IN  IF missing_languages = {}
        THEN [raised |-> FALSE, strings |-> strings]
        ELSE IF gen.raised \/ ~strings[i].hasLoc
        THEN [raised |-> TRUE, strings |-> strings]
        ELSE [raised |-> FALSE,
              strings |-> [strings EXCEPT ![i].loc = gen.new_translations @@ @]]

RECURSIVE FixLoopB(_, _, _)
FixLoopB(strings, analysis, n) ==
    IF n > Len(analysis.incomplete_keys)
    THEN [raised |-> FALSE, strings |-> strings]
    ELSE LET r == FixKeyB(strings, analysis, analysis.incomplete_keys[n])
         IN  IF r.raised THEN r ELSE FixLoopB(r.strings, analysis, n + 1)

\* localization_analyzer.fix_localizations.  fixed_data = data.copy() shares
\* the strings collection with data, so what was inserted before an error
\* stays in the caller's catalog.
fix_localizations_B(strings) ==
    FixLoopB(strings, analyze_completeness("B", strings), 1)

\* get_translation_value without the use of the English value: what is not
\* in the dictionary under the key gets the key.
get_translation_value_KeyOnly(key, language, existing_localizations) ==
    IF key \in DOMAIN TRANSLATION_MAPPINGS
       /\ language \in DOMAIN TRANSLATION_MAPPINGS[key]
    THEN [raised |-> FALSE, value |-> TRANSLATION_MAPPINGS[key][language]]
    ELSE [raised |-> FALSE, value |-> key]

\* localization_fixer.get_translation_value.
get_translation_value(key, language, existing_localizations) ==
    IF key \in DOMAIN TRANSLATION_MAPPINGS
       /\ language \in DOMAIN TRANSLATION_MAPPINGS[key]
    THEN [raised |-> FALSE, value |-> TRANSLATION_MAPPINGS[key][language]]
    ELSE IF language = "en"
    THEN [raised |-> FALSE, value |-> key]
    ELSE IF "en" \in DOMAIN existing_localizations
    THEN IF ~existing_localizations["en"].unit
         THEN [raised |-> TRUE, value |-> ""]
         ELSE LET english_value == existing_localizations["en"].value
              IN  IF english_value \in DOMAIN TRANSLATION_MAPPINGS
                     /\ language \in DOMAIN TRANSLATION_MAPPINGS[english_value]
                  THEN [raised |-> FALSE,
                        value |-> TRANSLATION_MAPPINGS[english_value][language]]
                  ELSE [raised |-> FALSE, value |-> english_value]
    ELSE [raised |-> FALSE, value |-> key]

\* for lang in missing_languages: ... of localization_fixer.fix_localizations.
\* existing_localizations is the entry's own localizations object when the
\* entry had one (aliased), so it sees the codes inserted so far; otherwise it
\* is the empty default of .get, which stays empty.
RECURSIVE FixLangsC(_, _, _, _, _)
FixLangsC(key, langs, n, aliased, loc) ==
    IF n > Len(langs) THEN [raised |-> FALSE, loc |-> loc]
    ELSE LET existing_localizations == IF aliased THEN loc ELSE NoLocs
             t == get_translation_value(key, langs[n], existing_localizations)
         IN  IF t.raised THEN [raised |-> TRUE, loc |-> loc]
             ELSE FixLangsC(key, langs, n + 1, aliased,
                            (langs[n] :> NewLocalization(t.value)) @@ loc)

\* The body of the loop of localization_fixer.fix_localizations for one
\* incomplete key.
FixKeyC(strings, analysis, key, enPos) ==
    LET missing_languages == MissingOf(analysis, key)
        i == IndexOf(strings, key)
        r == FixLangsC(key, MissingOrder(missing_languages, enPos), 1,
                       strings[i].hasLoc, Localizations(strings[i]))
    IN  IF missing_languages = {}
        THEN [raised |-> FALSE, strings |-> strings]
        ELSE IF r.raised
        THEN [raised |-> TRUE, strings |-> strings]
        ELSE [raised |-> FALSE,
              strings |-> [strings EXCEPT ![i].hasLoc = TRUE, ![i].loc = r.loc]]

RECURSIVE FixLoopC(_, _, _, _)
FixLoopC(strings, analysis, n, enPos) ==
    IF n > Len(analysis.incomplete_keys)
    THEN [raised |-> FALSE, strings |-> strings]
    ELSE LET r == FixKeyC(strings, analysis, analysis.incomplete_keys[n], enPos)
         IN  IF r.raised THEN r ELSE FixLoopC(r.strings, analysis, n + 1, enPos)

\* localization_fixer.fix_localizations.  It works on a deep copy, so an error
\* leaves the caller's catalog as it was and nothing is returned.
fix_localizations_C(strings, enPos) ==
    LET r == FixLoopC(strings, analyze_completeness("C", strings), 1, enPos)
    IN  IF r.raised THEN [raised |-> TRUE, strings |-> strings] ELSE r

\* ----------------------------------------------------------- normalizer
\* The state coercion of fix_localizations.py on one localization.
CoerceState(localization) ==
    IF localization.unit /\ localization.state # TRANSLATED
    THEN [localization EXCEPT !.state = TRANSLATED]
    ELSE localization

\* NormalizeEntry without the skip of entries that are not to be translated.
NormalizeEntry_NoSkip(string_data) ==
    IF ~string_data.hasLoc
    THEN string_data
    ELSE LET localizations == string_data.loc
             withEn == IF "en" \notin DOMAIN localizations
                          /\ Cardinality(DOMAIN localizations) > 0
                       THEN ("en" :> NewLocalization(string_data.key)) @@ localizations
                       ELSE localizations
         IN  [string_data EXCEPT
                 !.loc = [lang_code \in DOMAIN withEn |-> CoerceState(withEn[lang_code])]]

\* NormalizeEntry going on to the next entry once it has added 'en', so that
\* the states of that entry are left for the next pass.
NormalizeEntry_ContinueAfterEn(string_data) ==
    IF ~string_data.shouldTranslate \/ ~string_data.hasLoc
    THEN string_data
    ELSE LET localizations == string_data.loc
         IN  IF "en" \notin DOMAIN localizations
                /\ Cardinality(DOMAIN localizations) > 0
             THEN [string_data EXCEPT
                      !.loc = ("en" :> NewLocalization(string_data.key)) @@ localizations]
             ELSE [string_data EXCEPT
                      !.loc = [lang_code \in DOMAIN localizations |->
                                  CoerceState(localizations[lang_code])]]

\* The body of the loop of fix_localizations.py for one entry.
NormalizeEntry(string_data) ==
    IF ~string_data.shouldTranslate \/ ~string_data.hasLoc
    THEN string_data
    ELSE LET localizations == string_data.loc
             withEn == IF "en" \notin DOMAIN localizations
                          /\ Cardinality(DOMAIN localizations) > 0
                       THEN ("en" :> NewLocalization(string_data.key)) @@ localizations
                       ELSE localizations
         IN  [string_data EXCEPT
                 !.loc = [lang_code \in DOMAIN withEn |-> CoerceState(withEn[lang_code])]]

\* fix_localizations.py applied to the strings collection of a document.
Normalize(strings) == [i \in 1..Len(strings) |-> NormalizeEntry(strings[i])]

\* ------------------------------------------------------------- the state
\* The functions called on a catalog held in memory (Spec, SpecIdem):
\*   data   the strings collection of the catalog the caller holds
\*   hist   the last operations applied to it, oldest first, each with the
\*          catalog it was applied to, whether it raised and what it returned
\*   depth  how many operations hist remembers
\* One run of a script from the command line (SpecRun):
\*   variant  "A", "B" or "C"
\*   hasArg   the path argument is given (Variant A)
\*   file     the catalog file on disk, file0 the file when the run began,
\*            backup the .xcstrings.backup file
\*   pc       the statement of main the run is at
\*   mem      the loaded document (data), fixed the repaired one (fixed_data)
\*   initial, final   the analyses of main
\*   exit     the exit status of the process once pc = "exited"
\*   out      the messages printed (a traceback included)
\*   failed   the file operations that failed: "read", "copy", "write"
\*   writes   how often the catalog file was opened for writing
VARIABLES data, hist, depth,
          variant, hasArg, file, file0, backup, pc, mem, fixed, initial, final,
          exit, out, failed, writes

libVars == <<data, hist, depth>>
runVars == <<variant, hasArg, file, file0, backup, pc, mem, fixed, initial,
             final, exit, out, failed, writes>>
vars == <<data, hist, depth, variant, hasArg, file, file0, backup, pc, mem,
          fixed, initial, final, exit, out, failed, writes>>

NoReport == EmptyAnalysis(<<>>)

\* A document: what the bytes of a file parse to.
\*   "invalid"    not JSON (or not UTF-8): json.load raises
\*   "empty"      the object {}
\*   "nostrings"  an object with members, none of them 'strings'
\*   "catalog"    an object with the member 'strings'
Doc(kind, strings) == [kind |-> kind, strings |-> strings]
NoDoc == Doc("none", <<>>)
NoFile == [exists |-> FALSE, doc |-> NoDoc]
FileOf(doc) == [exists |-> TRUE, doc |-> doc]

\* No script is running: the functions are called directly.
RunIdle ==
    /\ variant = "none" /\ hasArg = FALSE
    /\ file = NoFile /\ file0 = NoFile /\ backup = NoFile
    /\ pc = "idle" /\ mem = NoDoc /\ fixed = NoDoc
    /\ initial = NoReport /\ final = NoReport
    /\ exit = 0 /\ out = {} /\ failed = {} /\ writes = 0

Push(h, r) == IF Len(h) < depth THEN Append(h, r) ELSE Append(Tail(h), r)

Op(name, impl, raised, report) ==
    [op |-> name, impl |-> impl, before |-> data, raised |-> raised,
     report |-> report]

Last == hist[Len(hist)]

Init ==
    /\ data \in Catalogs
    /\ hist = <<>>
    /\ depth = 2
    /\ RunIdle

\* ------------------------------------------------- the functions, as called
\* Where list(set) may put "en" among the missing codes: first, second, last.
EnPositions == {0, 1, Len(LangSeq) - 1}

\* analysis = analyze_completeness(data) of localization_analyzer.py
AnalyzeB ==
    /\ hist' = Push(hist, Op("analyze", "B", FALSE, analyze_completeness("B", data)))
    /\ UNCHANGED <<data, depth>>
    /\ UNCHANGED runVars

AnalyzeC_SetDefault ==
    /\ hist' = Push(hist, Op("analyze", "C", FALSE, analyze_completeness("C", data)))
    /\ data' = [i \in 1..Len(data) |->
                   IF data[i].shouldTranslate
                   THEN [data[i] EXCEPT !.hasLoc = TRUE] ELSE data[i]]
    /\ UNCHANGED depth
    /\ UNCHANGED runVars

\* analysis = analyze_completeness(data) of localization_fixer.py
AnalyzeC ==
    /\ hist' = Push(hist, Op("analyze", "C", FALSE, analyze_completeness("C", data)))
    /\ UNCHANGED <<data, depth>>
    /\ UNCHANGED runVars

\* The scan of localization_status.check_localization_status
StatusD ==
    /\ hist' = Push(hist, Op("analyze", "D", FALSE, analyze_completeness("D", data)))
    /\ UNCHANGED <<data, depth>>
    /\ UNCHANGED runVars

\* data = fix_localizations(data) of localization_analyzer.py
RepairB ==
    /\ data' = fix_localizations_B(data).strings
    /\ hist' = Push(hist, Op("repair", "B", fix_localizations_B(data).raised, NoReport))
    /\ UNCHANGED depth
    /\ UNCHANGED runVars

\* data = fix_localizations(data) of localization_fixer.py
RepairC ==
    /\ \E enPos \in EnPositions :
          /\ data' = fix_localizations_C(data, enPos).strings
          /\ hist' = Push(hist, Op("repair", "C",
                                   fix_localizations_C(data, enPos).raised, NoReport))
    /\ UNCHANGED depth
    /\ UNCHANGED runVars

\* fix_localizations(file_path) of fix_localizations.py on the document
NormalizeA ==
    /\ data' = Normalize(data)
    /\ hist' = Push(hist, Op("normalize", "A", FALSE, NoReport))
    /\ UNCHANGED depth
    /\ UNCHANGED runVars

Next ==
    \/ AnalyzeB
    \/ AnalyzeC
    \/ StatusD
    \/ RepairB
    \/ RepairC
    \/ NormalizeA

Spec == Init /\ [][Next]_vars

\* repair, analyze, repair with one implementation: three operations are
\* remembered and every operation is of the implementation of the one before.
InitIdem ==
    /\ data \in Catalogs
    /\ hist = <<>>
    /\ depth = 3
    /\ RunIdle

SameImpl(impl) == IF Len(hist) = 0 THEN TRUE ELSE Last.impl = impl

NextIdem ==
    \/ SameImpl("B") /\ AnalyzeB
    \/ SameImpl("B") /\ RepairB
    \/ SameImpl("C") /\ AnalyzeC
    \/ SameImpl("C") /\ RepairC

SpecIdem == InitIdem /\ [][NextIdem]_vars

\* ------------------------------------------------------------ the claims
LastIs(name) == Len(hist) > 0 /\ Last.op = name
Codes(entry) == DOMAIN Localizations(entry)

\* C1: repair only inserts.  After either fix_localizations, also one that
\* raised, every entry keeps its key and flag, every localization it had is
\* there with the same value and state, and every code that was added is a
\* target-set code the entry did not have.
C1_RepairOnlyInserts ==
    LastIs("repair") =>
        /\ Len(data) = Len(Last.before)
        /\ \A i \in 1..Len(data) :
              LET b == Last.before[i]
                  a == data[i]
              IN  /\ a.key = b.key
                  /\ a.shouldTranslate = b.shouldTranslate
                  /\ Codes(b) \subseteq Codes(a)
                  /\ \A l \in Codes(b) : a.loc[l] = b.loc[l]
                  /\ (Codes(a) \ Codes(b)) \subseteq EXPECTED_LANGUAGES

\* A repair that inserted codes into an entry that already had localizations.
C1_Witness ==
    /\ LastIs("repair")
    /\ \E i \in 1..Len(data) :
          /\ Codes(Last.before[i]) # {}
          /\ Codes(data[i]) # Codes(Last.before[i])

\* C2: after repair, every translatable entry the repair's analysis reported
\* incomplete has a localization for each of the ten target-set codes.
C2_RepairFillsEveryCode ==
    LastIs("repair") =>
        \A i \in 1..Len(data) :
            LET b == Last.before[i]
                incomplete == analyze_completeness(Last.impl, Last.before).incomplete_keys
            IN  (b.shouldTranslate /\ \E n \in 1..Len(incomplete) : incomplete[n] = b.key)
                    => EXPECTED_LANGUAGES \subseteq Codes(data[i])

\* C3: an entry with shouldTranslate == false is excluded everywhere.  Every
\* report is the report of the catalog without the excluded entries (same
\* complete count, incomplete keys, missing languages and percentage), no
\* excluded key is listed, and no operation changes an excluded entry.
Translatable(entry) == entry.shouldTranslate

C3_ExcludedEverywhere ==
    Len(hist) > 0 =>
        /\ \A i \in 1..Len(data) :
              ~Last.before[i].shouldTranslate => data[i] = Last.before[i]
        /\ Last.op = "analyze" =>
              LET r == Last.report
                  s == analyze_completeness(Last.impl, SelectSeq(Last.before, Translatable))
              IN  /\ r.complete_keys = s.complete_keys
                  /\ r.incomplete_keys = s.incomplete_keys
                  /\ r.missing_languages = s.missing_languages
                  /\ r.completion_percentage = s.completion_percentage
                  /\ r.total_keys - r.should_not_translate = s.total_keys
                  /\ \A i \in 1..Len(Last.before) :
                        ~Last.before[i].shouldTranslate =>
                            /\ Last.before[i].key \notin DOMAIN r.missing_languages
                            /\ \A n \in 1..Len(r.incomplete_keys) :
                                  r.incomplete_keys[n] # Last.before[i].key

\* An analysis of a catalog with an excluded entry that has a localization
\* not in state 'translated', then a normalizer pass or repair that changed
\* the catalog.
C3_Witness ==
    /\ Len(hist) = 2
    /\ hist[1].op = "analyze"
    /\ hist[2].op \in {"repair", "normalize"}
    /\ data # hist[2].before
    /\ \E i \in 1..Len(data) :
          /\ ~data[i].shouldTranslate
          /\ \E l \in Codes(data[i]) : data[i].loc[l].state # TRANSLATED

\* C4: repair is total.  Neither fix_localizations raises, and afterwards
\* every translatable entry has some value for every target-set code.
C4_RepairTotal ==
    LastIs("repair") =>
        /\ ~Last.raised
        /\ \A i \in 1..Len(data) :
              data[i].shouldTranslate =>
                  \A l \in EXPECTED_LANGUAGES :
                      l \in Codes(data[i]) /\ data[i].loc[l].unit

\* The localizations a repair added to the entry at index i.
Added(i) == Codes(data[i]) \ Codes(Last.before[i])

\* The canonical value of an entry: the value of its 'en' localization if it
\* has one, else its key.
Canonical(entry) ==
    IF "en" \in Codes(entry) THEN entry.loc["en"].value ELSE entry.key

\* The value the claim gives for language l of entry b (as it was before
\* the repair).
C5_ClaimedValue(b, l) ==
    IF b.key \in MappingKeys THEN TRANSLATION_MAPPINGS[b.key][l]
    ELSE IF l = "en" THEN b.key
    ELSE Canonical(b)

\* C5, as claimed: every localization that the repair of localization_fixer
\* inserts is 'translated' with the dictionary value for (key, L) if the
\* dictionary has the key, else the key if L is 'en', else the canonical
\* value; no other value is inserted.
C5_ValueChainAsClaimed ==
    (LastIs("repair") /\ Last.impl = "C") =>
        \A i \in 1..Len(data) : \A l \in Added(i) :
            data[i].loc[l] = [unit |-> TRUE, state |-> TRANSLATED,
                              value |-> C5_ClaimedValue(Last.before[i], l)]

\* The chain with the step the claim leaves out: the canonical value is
\* itself looked up in the dictionary.
C5_AmendedValue(b, l) ==
    IF b.key \in MappingKeys THEN TRANSLATION_MAPPINGS[b.key][l]
    ELSE IF l = "en" THEN b.key
    ELSE IF "en" \in Codes(b) /\ Canonical(b) \in MappingKeys
    THEN TRANSLATION_MAPPINGS[Canonical(b)][l]
    ELSE Canonical(b)

\* C5, amended: the inserted value is the dictionary value for (key, L) if the
\* dictionary has the key; else the key if L is 'en'; else, when the entry had
\* an 'en' localization with value v, the dictionary value for (v, L) if the
\* dictionary has v and v itself if not; else the key.
C5_ValueChainAmended ==
    (LastIs("repair") /\ Last.impl = "C") =>
        \A i \in 1..Len(data) : \A l \in Added(i) :
            data[i].loc[l] = [unit |-> TRUE, state |-> TRANSLATED,
                              value |-> C5_AmendedValue(Last.before[i], l)]

\* A repair by localization_fixer that inserted languages into an entry whose
\* 'en' value differs from its key, and into an entry without 'en'.
C5_Witness ==
    /\ LastIs("repair") /\ Last.impl = "C"
    /\ \E i \in 1..Len(data) :
          /\ "en" \in Codes(Last.before[i])
          /\ Canonical(Last.before[i]) # Last.before[i].key
          /\ "de" \in Added(i)
    /\ \E i \in 1..Len(data) :
          /\ "en" \notin Codes(Last.before[i])
          /\ {"en", "de"} \subseteq Added(i)

\* Every entry is translatable and is incomplete, if at all, only because
\* target languages are missing: what it has is 'translated'.
C6_OnlyLanguagesMissing(strings) ==
    /\ Len(strings) > 0
    /\ \A i \in 1..Len(strings) :
          /\ strings[i].shouldTranslate
          /\ \A l \in Codes(strings[i]) : ~NotTranslated(strings[i].loc[l])

C6_RepairAnalyzeRepair ==
    /\ Len(hist) = 3
    /\ hist[1].op = "repair" /\ hist[2].op = "analyze" /\ hist[3].op = "repair"

\* C6: repair is idempotent.  In repair, analyze, repair with one of the two
\* implementations the second repair changes nothing, and the analysis
\* reports 100 when the catalog before the first repair had only translatable
\* entries (at least one) that lacked nothing but languages.
C6_RepairIdempotent ==
    C6_RepairAnalyzeRepair =>
        /\ data = hist[3].before
        /\ C6_OnlyLanguagesMissing(hist[1].before) =>
              hist[2].report.completion_percentage.num
                  = 100 * hist[2].report.completion_percentage.den

\* The second application of the Normalizer right after the first.
C7_NormalizedTwice ==
    Len(hist) = 2 /\ hist[1].op = "normalize" /\ hist[2].op = "normalize"

\* C7: the Normalizer is idempotent.  Applied to its own output it returns
\* that document: it adds no 'en' localization and changes no state.
C7_NormalizerIdempotent ==
    C7_NormalizedTwice => data = hist[2].before

\* Two applications, the first of which added 'en' to an entry and coerced a
\* state of that entry.
C7_Witness ==
    /\ C7_NormalizedTwice
    /\ \E i \in 1..Len(data) :
          /\ "en" \notin Codes(hist[1].before[i])
          /\ "en" \in Codes(data[i])
          /\ \E l \in Codes(hist[1].before[i]) :
                hist[1].before[i].loc[l].state # data[i].loc[l].state

\* The rule of the claim: every target-set code is present and every
\* localization present is in state 'translated'.
C8_Complete(entry) ==
    /\ EXPECTED_LANGUAGES \subseteq Codes(entry)
    /\ \A l \in Codes(entry) : entry.loc[l].unit /\ entry.loc[l].state = TRANSLATED

\* C8: in each of the three analyses the entries counted complete are the
\* translatable entries that have every target-set code with every
\* localization 'translated'.
C8_CompleteIffAllTranslated ==
    LastIs("analyze") =>
        Last.report.complete_keys =
            Cardinality({i \in 1..Len(Last.before) :
                            /\ Last.before[i].shouldTranslate
                            /\ C8_Complete(Last.before[i])})

\* ------------------------------------------------------ one run of a script
Catalog(strings) == Doc("catalog", strings)

\* The files a run may find: none, one that is not JSON, {}, an object
\* without 'strings', or a catalog.
Files ==
    {NoFile, FileOf(Doc("invalid", <<>>)), FileOf(Doc("empty", <<>>)),
     FileOf(Doc("nostrings", <<>>))}
    \cup {FileOf(Catalog(c)) : c \in Catalogs}

InitRun ==
    /\ data = <<>> /\ hist = <<>> /\ depth = 0
    /\ variant \in {"A", "B", "C"}
    /\ hasArg \in (IF variant = "A" THEN BOOLEAN ELSE {FALSE})
    /\ file \in Files
    /\ file0 = file
    /\ backup = NoFile
    /\ pc = "start" /\ mem = NoDoc /\ fixed = NoDoc
    /\ initial = NoReport /\ final = NoReport
    /\ exit = 0 /\ out = {} /\ failed = {} /\ writes = 0

\* The process ends with the given status after printing msgs.
Exit(status, msgs) ==
    /\ pc' = "exited"
    /\ exit' = status
    /\ out' = out \cup msgs

\* The statement at pc is done without ending the process.
Goto(label, msgs) ==
    /\ pc' = label
    /\ out' = out \cup msgs
    /\ UNCHANGED exit

\* An exception nothing catches: the interpreter prints the traceback and
\* the process ends with status 1.
Uncaught(exc) == Exit(1, {"Traceback: " \o exc})

\* data.get('strings', {})
Strings(doc) == IF doc.kind = "catalog" THEN doc.strings ELSE <<>>

\* json.load(f) succeeds on the file
Loads(f) == f.exists /\ f.doc.kind # "invalid"

\* What no statement of a script changes.
RunFrame == UNCHANGED <<data, hist, depth, variant, hasArg, file0>>

\* --- Variant A: fix_localizations.py
\* if len(sys.argv) > 1: ... else: print(...)
A_Main ==
    /\ variant = "A" /\ pc = "start"
    /\ RunFrame
    /\ IF hasArg THEN Goto("A_load", {})
       ELSE Exit(0, {"Please provide the path"})
    /\ UNCHANGED <<file, backup, mem, fixed, initial, final, failed, writes>>

\* with open(file_path, 'r') as f: data = json.load(f)
A_Load ==
    /\ variant = "A" /\ pc = "A_load"
    /\ RunFrame
    /\ IF Loads(file)
       THEN /\ mem' = file.doc
            /\ Goto("A_check", {})
            /\ UNCHANGED failed
       ELSE /\ failed' = failed \cup {"read"}
            /\ Uncaught(IF file.exists THEN "JSONDecodeError" ELSE "FileNotFoundError")
            /\ UNCHANGED mem
    /\ UNCHANGED <<file, backup, fixed, initial, final, writes>>

\* if 'strings' not in data: print(...); return
A_Check ==
    /\ variant = "A" /\ pc = "A_check"
    /\ RunFrame
    /\ IF mem.kind # "catalog"
       THEN Exit(0, {"Error: No 'strings' section found in file"})
       ELSE Goto("A_fix", {})
    /\ UNCHANGED <<file, backup, mem, fixed, initial, final, failed, writes>>

\* for string_key, string_data in data['strings'].items(): ...
A_Fix ==
    /\ variant = "A" /\ pc = "A_fix"
    /\ RunFrame
    /\ mem' = Catalog(Normalize(mem.strings))
    /\ Goto("A_write", {"Fixed entries"})
    /\ UNCHANGED <<file, backup, fixed, initial, final, failed, writes>>

\* with open(file_path, 'w') as f: json.dump(data, f, ...): the open may fail,
\* and so may the writing, which leaves a cut-off file.
A_Write ==
    /\ variant = "A" /\ pc = "A_write"
    /\ RunFrame
    /\ \E result \in {"ok", "open failed", "write failed"} :
          CASE result = "ok" ->
                  /\ file' = FileOf(mem)
                  /\ writes' = writes + 1
                  /\ Exit(0, {"Successfully updated"})
                  /\ UNCHANGED failed
            [] result = "open failed" ->
                  /\ failed' = failed \cup {"write"}
                  /\ Uncaught("OSError")
                  /\ UNCHANGED <<file, writes>>
            [] OTHER ->
                  /\ file' = FileOf(Doc("invalid", <<>>))
                  /\ writes' = writes + 1
                  /\ failed' = failed \cup {"write"}
                  /\ Uncaught("OSError")
    /\ UNCHANGED <<backup, mem, fixed, initial, final>>

\* --- Variants B and C: main of localization_analyzer.py, localization_fixer.py
\* if not file_path.exists(): print(...); sys.exit(1)
M_Exists ==
    /\ variant \in {"B", "C"} /\ pc = "start"
    /\ RunFrame
    /\ IF ~file.exists
       THEN Exit(1, {"Error: File not found"})
       ELSE Goto("load", {})
    /\ UNCHANGED <<file, backup, mem, fixed, initial, final, failed, writes>>

\* load_localizations: the document, or {} after printing the error.
load_localizations(f) ==
    IF Loads(f) THEN f.doc ELSE Doc("empty", <<>>)

\* data = load_localizations(file_path); if not data: print(...); sys.exit(1)
M_Load ==
    /\ variant \in {"B", "C"} /\ pc = "load"
    /\ RunFrame
    /\ mem' = load_localizations(file)
    /\ failed' = IF Loads(file) THEN failed ELSE failed \cup {"read"}
    /\ IF load_localizations(file).kind = "empty"
       THEN Exit(1, (IF Loads(file) THEN {} ELSE {"Error loading file"})
                    \cup {"Failed to load localization data"})
       ELSE Goto("analyze", {})
    /\ UNCHANGED <<file, backup, fixed, initial, final, writes>>

\* initial_analysis = analyze_completeness(data);
\* if initial_analysis['completion_percentage'] >= 100.0: print(...); return
M_Analyze ==
    /\ variant \in {"B", "C"} /\ pc = "analyze"
    /\ RunFrame
    /\ initial' = analyze_completeness(variant, Strings(mem))
    /\ IF PctAtLeast100(analyze_completeness(variant, Strings(mem)).completion_percentage)
       THEN Exit(0, {"Localizations are already 100% complete!"})
       ELSE Goto(IF variant = "B" THEN "prompt" ELSE "fix", {})
    /\ UNCHANGED <<file, backup, mem, fixed, final, failed, writes>>

\* response = input(...).strip().lower(); if response == 'y': ... else: ...
M_Prompt ==
    /\ variant = "B" /\ pc = "prompt"
    /\ RunFrame
    /\ \E response \in {"y", "n"} :
          IF response = "y" THEN Goto("fix", {})
          ELSE Exit(0, {"Fix cancelled by user."})
    /\ UNCHANGED <<file, backup, mem, fixed, initial, final, failed, writes>>

\* fix_localizations of the variant on the loaded document.
fix_localizations(impl, strings, enPos) ==
    IF impl = "B" THEN fix_localizations_B(strings)
    ELSE fix_localizations_C(strings, enPos)

\* print("Fixing localizations..."); fixed_data = fix_localizations(data).
\* In Variant B data and fixed_data share the strings collection; in Variant C
\* fixed_data is a deep copy.  A KeyError of the repair is not caught.
M_Fix ==
    /\ variant \in {"B", "C"} /\ pc = "fix"
    /\ RunFrame
    /\ \E enPos \in EnPositions :
          LET r == fix_localizations(variant, Strings(mem), enPos)
          IN  /\ mem' = IF variant = "B" THEN Doc(mem.kind, r.strings) ELSE mem
              /\ IF r.raised
                 THEN /\ Exit(1, {"Fixing localizations...", "Traceback: KeyError"})
                      /\ UNCHANGED fixed
                 ELSE /\ fixed' = Doc(mem.kind, r.strings)
                      /\ Goto("verify", {"Fixing localizations..."})
    /\ UNCHANGED <<file, backup, initial, final, failed, writes>>

\* final_analysis = analyze_completeness(fixed_data);
\* if final > initial: save ... else: print("No improvement made.")
M_Verify ==
    /\ variant \in {"B", "C"} /\ pc = "verify"
    /\ RunFrame
    /\ final' = analyze_completeness(variant, Strings(fixed))
    /\ IF PctGreater(analyze_completeness(variant, Strings(fixed)).completion_percentage,
                     initial.completion_percentage)
       THEN Goto("backup", {})
       ELSE Exit(0, {"No improvement made."})
    /\ UNCHANGED <<file, backup, mem, fixed, initial, failed, writes>>

\* save_fixed_file, first half: if backup: if file_path.exists():
\* shutil.copy2(file_path, backup_path), outside any try.
M_Backup ==
    /\ variant \in {"B", "C"} /\ pc = "backup"
    /\ RunFrame
    /\ IF ~file.exists
       THEN /\ Goto("write", {})
            /\ UNCHANGED <<backup, failed>>
       ELSE \E copied \in BOOLEAN :
               IF copied
               THEN /\ backup' = file
                    /\ Goto("write", {"Backup saved to"})
                    /\ UNCHANGED failed
               ELSE /\ failed' = failed \cup {"copy"}
                    /\ Uncaught("OSError")
                    /\ UNCHANGED backup
    /\ UNCHANGED <<file, mem, fixed, initial, final, writes>>

\* save_fixed_file, second half, and the branch of main on what it returns:
\* try: open(file_path, 'w') ... json.dump ... return True
\* except Exception: print(...); return False
M_Write ==
    /\ variant \in {"B", "C"} /\ pc = "write"
    /\ RunFrame
    /\ \E result \in {"ok", "open failed", "write failed"} :
          CASE result = "ok" ->
                  /\ file' = FileOf(fixed)
                  /\ writes' = writes + 1
                  /\ Exit(0, {"Fixed file saved to", "Localizations have been fixed!"})
                  /\ UNCHANGED failed
            [] result = "open failed" ->
                  /\ failed' = failed \cup {"write"}
                  /\ Exit(0, {"Error saving file", "Failed to save the fixed file"})
                  /\ UNCHANGED <<file, writes>>
            [] OTHER ->
                  /\ file' = FileOf(Doc("invalid", <<>>))
                  /\ writes' = writes + 1
                  /\ failed' = failed \cup {"write"}
                  /\ Exit(0, {"Error saving file", "Failed to save the fixed file"})
    /\ UNCHANGED <<backup, mem, fixed, initial, final>>

NextRun ==
    \/ A_Main
    \/ A_Load
    \/ A_Check
    \/ A_Fix
    \/ A_Write
    \/ M_Exists
    \/ M_Load
    \/ M_Analyze
    \/ M_Prompt
    \/ M_Fix
    \/ M_Verify
    \/ M_Backup
    \/ M_Write

SpecRun == InitRun /\ [][NextRun]_vars

\* ------------------------------------------------- the claims about a run
Exited == pc = "exited"

\* The run cannot load a catalog: Variant A without its argument, or a file
\* that is absent, is not JSON or has no 'strings' collection.
C9_LoadFails ==
    \/ variant = "A" /\ ~hasArg
    \/ ~file0.exists
    \/ file0.doc.kind # "catalog"

\* C9: every load failure ends the run before any analysis, repair or file
\* write, with a non-zero exit status.
C9_LoadFailureEndsRun ==
    C9_LoadFails =>
        /\ pc \in {"start", "load", "A_load", "A_check", "exited"}
        /\ writes = 0 /\ file = file0 /\ backup = NoFile
        /\ Exited => exit # 0

\* A save failure is reported: save_fixed_file printed its error, or the
\* interpreter printed the traceback of the failed copy.
C10_Reported == "Error saving file" \in out \/ "Traceback: OSError" \in out

\* C10: in Variants B and C every save failure (the write or the backup copy)
\* is reported and the run ends with a non-zero exit status; no run with the
\* backup made and the write failed ends with status zero.
C10_SaveFailureExitsNonZero ==
    (variant \in {"B", "C"} /\ Exited) =>
        /\ failed \cap {"copy", "write"} # {} => C10_Reported /\ exit # 0
        /\ (backup # NoFile /\ "write" \in failed) => exit # 0

\* The destination write of save_fixed_file was attempted: the file was opened
\* for writing, or opening it failed.
C11_WriteAttempted == writes > 0 \/ "write" \in failed

\* C11: in Variants B and C a failing backup copy is reported and the write of
\* the catalog to the destination is still attempted; a copy failure never
\* prevents the destination write.
C11_CopyFailureDoesNotBlockWrite ==
    (variant \in {"B", "C"} /\ Exited /\ "copy" \in failed) =>
        /\ "Traceback: OSError" \in out \/ "Error saving file" \in out
        /\ C11_WriteAttempted

\* The percentage of the re-analysis is strictly greater than the initial one.
C12_Improved ==
    final.completion_percentage.num * initial.completion_percentage.den
        > initial.completion_percentage.num * final.completion_percentage.den

\* The only run that may write: the catalog was loaded, the initial analysis
\* was below 100%, the repair ran (in Variant B after the answer 'y', which
\* alone prints "Fixing localizations...") and the re-analysis improved.
C12_WritingRun ==
    /\ mem.kind \in {"catalog", "nostrings"}
    /\ initial.completion_percentage.num
           < 100 * initial.completion_percentage.den
    /\ fixed # NoDoc
    /\ "Fixing localizations..." \in out
    /\ C12_Improved

\* C12: in Variants B and C the file is written at most once per run and only
\* in a run whose initial analysis was below 100%, whose repair ran (in
\* Variant B after the answer 'y') and whose re-analysis is strictly greater;
\* up to the prompt of Variant B neither the loaded catalog nor the file nor a
\* backup has changed; every other run ends with the file as it was.
C12_WriteOnlyOnImprovement ==
    variant \in {"B", "C"} =>
        /\ writes <= 1
        /\ (writes > 0 \/ file # file0 \/ backup # NoFile) => C12_WritingRun
        /\ (variant = "B" /\ pc \in {"start", "load", "analyze", "prompt"}) =>
              /\ file = file0 /\ backup = NoFile /\ writes = 0
              /\ mem \in {NoDoc, load_localizations(file0)}
        /\ (Exited /\ ~C12_WritingRun) => file = file0 /\ writes = 0
        /\ (Exited /\ out \cap {"Localizations are already 100% complete!",
                                "Fix cancelled by user.",
                                "No improvement made."} # {}) => file = file0

\* Variant B, after the answer 'y', has made the backup and written the
\* repaired catalog once.
C12_Witness ==
    /\ variant = "B" /\ Exited /\ exit = 0
    /\ writes = 1 /\ file # file0 /\ backup = file0
    /\ file = FileOf(fixed) /\ C12_WritingRun

\* The last two operations are analyses by the same implementation, with no
\* operation in between.
C13_AnalyzedTwice ==
    /\ Len(hist) = 2
    /\ hist[1].op = "analyze" /\ hist[2].op = "analyze"
    /\ hist[1].impl = hist[2].impl

C14_Excluded(strings) ==
    Cardinality({i \in 1..Len(strings) : ~strings[i].shouldTranslate})

\* C14: in all three analyses the total and the excluded keys are counted as
\* they are in the catalog, the percentage is complete_keys * 100 over
\* total_keys - should_not_translate when that is positive and 0 when it is
\* zero (an empty collection, or only excluded entries), and it always lies
\* between 0 and 100.
C14_PercentageDefined ==
    LastIs("analyze") =>
        LET r == Last.report
            p == Last.report.completion_percentage
            denominator == Last.report.total_keys - Last.report.should_not_translate
        IN  /\ r.total_keys = Len(Last.before)
            /\ r.should_not_translate = C14_Excluded(Last.before)
            /\ denominator >= 0 /\ p.den > 0
            /\ denominator > 0 =>
                  p.num * denominator = r.complete_keys * 100 * p.den
            /\ denominator = 0 => p.num = 0
            /\ 0 <= p.num /\ p.num <= 100 * p.den

\* An analysis of a catalog that is not empty and has only excluded entries:
\* the denominator is zero and the percentage is 0.
C14_Witness ==
    /\ LastIs("analyze")
    /\ Last.report.total_keys = MaxEntries
    /\ Last.report.should_not_translate = Last.report.total_keys
    /\ Last.report.completion_percentage.num = 0

\* The keys listed in incomplete_keys of a report.
C15_IncompleteKeys(r) ==
    {r.incomplete_keys[i] : i \in 1..Len(r.incomplete_keys)}

\* C15: every report of analyze_completeness of either script partitions the
\* keys: complete_keys + len(incomplete_keys) + should_not_translate is
\* total_keys, no key is listed twice as incomplete, every key with recorded
\* missing languages is listed as incomplete, and what is recorded for it is
\* not empty and is exactly the target codes its localizations lack.
C15_ReportPartition ==
    (LastIs("analyze") /\ Last.impl \in {"B", "C"}) =>
        LET r == Last.report
            strings == Last.before
        IN  /\ r.complete_keys + Len(r.incomplete_keys) + r.should_not_translate
                  = r.total_keys
            /\ Cardinality(C15_IncompleteKeys(r)) = Len(r.incomplete_keys)
            /\ DOMAIN r.missing_languages \subseteq C15_IncompleteKeys(r)
            /\ \A k \in DOMAIN r.missing_languages :
                  /\ r.missing_languages[k] # {}
                  /\ r.missing_languages[k]
                        = EXPECTED_LANGUAGES \ Codes(strings[IndexOf(strings, k)])

\* A report of localization_analyzer with two incomplete keys: one lacks
\* languages, the other has them all but not all of them translated.
C15_Witness ==
    /\ LastIs("analyze") /\ Last.impl = "B"
    /\ Len(Last.report.incomplete_keys) = 2
    /\ Cardinality(DOMAIN Last.report.missing_languages) = 1

=============================================================================
